---- MODULE Spec2Model ----
(***************************************************************************)
(* PySkinDose: the X-ray beam / detector geometry of one irradiation event *)
(* (Beam.__init__) and the skin-cell hit test (Beam.check_hit), from       *)
(* src/src/pyskindose/beam_class.py.                                       *)
(*                                                                         *)
(* Numbers.  The code computes in float64; the model computes in exact     *)
(* arithmetic over the angles whose cosine and sine are rational with      *)
(* denominator Den (0, 90, 180, -90 degrees and the 3-4-5 angles).  A      *)
(* matrix entry is stored as its numerator over Den, a coordinate of       *)
(* Beam.r and Beam.det_r as its numerator over Scale, a coordinate of a    *)
(* phantom point or normal as the integer it is.  The rows of Beam.N are   *)
(* stored up to a positive factor (the code divides each edge by its       *)
(* length, the model by the gcd of its numerators), which keeps the sign   *)
(* of every dot product, the only thing check_hit reads of N.  A division  *)
(* of zero by zero is NaN, and NaN <= 0 is false, as in numpy.             *)
(***************************************************************************)
EXTENDS Integers, Sequences, FiniteSets, TLC

VARIABLES data_norm, patient, beam, built, hits, raised

vars == <<data_norm, patient, beam, built, hits, raised>>

-----------------------------------------------------------------------------
(* Fixed-point representation *)

\* denominator of every cosine and sine of the angle table
Den == 5

\* denominator of the coordinates of Beam.r and Beam.det_r: the corner
\* offsets 0.5 (and 1.2 = 12/10) times three (two) rotations
Scale == 2 * Den * Den * Den

Abs(x) == IF x < 0 THEN -x ELSE x

RECURSIVE GCD(_, _)
GCD(a, b) == IF b = 0 THEN a ELSE GCD(b, a % b)

GCD3(w) == GCD(GCD(Abs(w[1]), Abs(w[2])), Abs(w[3]))

-----------------------------------------------------------------------------
(* numpy helpers *)

Zero3 == <<0, 0, 0>>

VSub(a, b) == <<a[1] - b[1], a[2] - b[2], a[3] - b[3]>>

VScale(k, a) == <<k * a[1], k * a[2], k * a[3]>>

VDiv(a, k) == <<a[1] \div k, a[2] \div k, a[3] \div k>>

\* np.dot of two 3-vectors
Dot(a, b) == a[1] * b[1] + a[2] * b[2] + a[3] * b[3]

\* np.cross of two 3-vectors
Cross(a, b) == <<a[2] * b[3] - a[3] * b[2],
                 a[3] * b[1] - a[1] * b[3],
                 a[1] * b[2] - a[2] * b[1]>>

\* M.T of a 3x3 matrix
Transpose(M) == [i \in 1..3 |-> [j \in 1..3 |-> M[j][i]]]

\* np.matmul of two 3x3 matrices (numerators; the denominators multiply)
MatMul(A, B) == [i \in 1..3 |-> [j \in 1..3 |->
                    A[i][1] * B[1][j] + A[i][2] * B[2][j] + A[i][3] * B[3][j]]]

\* np.matmul of a 3x3 matrix and a column vector
MatVec(M, p) == <<Dot(M[1], p), Dot(M[2], p), Dot(M[3], p)>>

-----------------------------------------------------------------------------
(* Angles: np.deg2rad, np.cos, np.sin *)

\* <<cos, sin>> numerators over Den of the angles the model draws from:
\* 0, atan(4/3) (about 53.13), 90, 180, -90 degrees, then the 3-4-5 angles
\* of about -36.87, 143.13 and -126.87 degrees
AngleTable == << <<5, 0>>, <<3, 4>>, <<0, 5>>, <<-5, 0>>, <<0, -5>>,
                 <<4, -3>>, <<-4, 3>>, <<-3, -4>> >>

NumAngles == Len(AngleTable)

\* an angle of data_norm is the index of its row in AngleTable
Cos(a) == AngleTable[((a - 1) % NumAngles) + 1][1]

Sin(a) == AngleTable[((a - 1) % NumAngles) + 1][2]

\* the index of the angle 0
ZeroAngle == 1

\* R1 with the sign of the lower sine lost
R1OfSignLost(ap1) == << <<Cos(ap1), Sin(ap1), 0>>,
                        <<Sin(ap1), Cos(ap1), 0>>,
                        <<0, 0, Den>> >>

R1Of(ap1) == << <<Cos(ap1), Sin(ap1), 0>>,
                <<-Sin(ap1), Cos(ap1), 0>>,
                <<0, 0, Den>> >>

R2Of(ap2) == << <<Den, 0, 0>>,
                <<0, Cos(ap2), Sin(ap2)>>,
                <<0, -Sin(ap2), Cos(ap2)>> >>

R3Of(ap3) == << <<Cos(ap3), 0, -Sin(ap3)>>,
                <<0, Den, 0>>,
                <<Sin(ap3), 0, Cos(ap3)>> >>

-----------------------------------------------------------------------------
(* Beam.__init__ *)

\* the beam-detector interception points of a beam of side length 1, in
\* halves: rows (+0.5, -1.0, +0.5), (+0.5, -1.0, -0.5), (-0.5, -1.0, -0.5),
\* (-0.5, -1.0, +0.5)
UnitBeam == << <<1, -2, 1>>, <<1, -2, -1>>, <<-1, -2, -1>>, <<-1, -2, 1>> >>

\* the detector corners for side length 1, in tenths: the front face at
\* -1.0 and the back face at -1.2
UnitDetector == << <<5, -10, 5>>, <<5, -10, -5>>, <<-5, -10, -5>>, <<-5, -10, 5>>,
                   <<5, -12, 5>>, <<5, -12, -5>>, <<-5, -12, -5>>, <<-5, -12, 5>> >>

\* the angles of the event, whatever plot_setup says
BeamAnglesOfEvent(dn, event, plot_setup) ==
    <<dn[event].Ap1, dn[event].Ap2, dn[event].Ap3>>

\* ap1, ap2, ap3: zero when plot_setup, else the event's angles
BeamAngles(dn, event, plot_setup) ==
    IF plot_setup
    THEN <<ZeroAngle, ZeroAngle, ZeroAngle>>
    ELSE <<dn[event].Ap1, dn[event].Ap2, dn[event].Ap3>>

\* source = [0, DSI[event], 0], in halves
SourceOf(dn, event) == <<0, 2 * dn[event].DSI, 0>>

\* the two collimation widths on each other's axis
ScaledBeamSwapped(dn, event) ==
    [k \in 1..4 |-> <<UnitBeam[k][1] * dn[event].FS_lat,
                      UnitBeam[k][2] * dn[event].DID,
                      UnitBeam[k][3] * dn[event].FS_long>>]

\* r[:, 0] *= FS_long[event]; r[:, 1] *= DID[event]; r[:, 2] *= FS_lat[event]
ScaledBeam(dn, event) ==
    [k \in 1..4 |-> <<UnitBeam[k][1] * dn[event].FS_long,
                      UnitBeam[k][2] * dn[event].DID,
                      UnitBeam[k][3] * dn[event].FS_lat>>]

\* np.matmul(R2, R1).T
PanelTransform(ap) == Transpose(MatMul(R2Of(ap[2]), R1Of(ap[1])))

\* the two transforms applied in the other order
RotateRowsOuterFirst(A, B, r) == [k \in 1..Len(r) |-> MatVec(B, MatVec(A, r[k]))]

\* the rows of np.matmul(A, np.matmul(B, r.T)).T
RotateRows(A, B, r) == [k \in 1..Len(r) |-> MatVec(A, MatVec(B, r[k]))]

\* the rows of np.matmul(A, r.T).T
RotatePanelRows(A, r) == [k \in 1..Len(r) |-> MatVec(A, r[k])]

\* self.r: the source stacked on the four corners, then
\* r = np.matmul(np.matmul(R2, R1).T, np.matmul(R3.T, r.T)).T
BeamR(dn, event, plot_setup) ==
    LET ap == BeamAngles(dn, event, plot_setup)
    IN  RotateRows(PanelTransform(ap), Transpose(R3Of(ap[3])),
                   <<SourceOf(dn, event)>> \o ScaledBeam(dn, event))

NaN == [nan |-> TRUE, x |-> Zero3]

\* one row of v: (r[k] - r[0]) / norm(r[k] - r[0]); 0/0 is NaN
UnitVector(e) ==
    IF e = Zero3 THEN NaN ELSE [nan |-> FALSE, x |-> VDiv(e, GCD3(e))]

\* np.cross of two rows of v
CrossRows(a, b) ==
    IF a.nan \/ b.nan THEN NaN ELSE [nan |-> FALSE, x |-> Cross(a.x, b.x)]

\* the cross products with their factors in the other order
BeamNInward(r) ==
    LET v == [k \in 1..4 |-> UnitVector(VSub(r[k + 1], r[1]))]
    IN  <<CrossRows(v[2], v[1]), CrossRows(v[3], v[2]),
          CrossRows(v[4], v[3]), CrossRows(v[1], v[4])>>

\* self.N: cross(v0, v1), cross(v1, v2), cross(v2, v3), cross(v3, v0)
BeamN(r) ==
    LET v == [k \in 1..4 |-> UnitVector(VSub(r[k + 1], r[1]))]
    IN  <<CrossRows(v[1], v[2]), CrossRows(v[2], v[3]),
          CrossRows(v[3], v[4]), CrossRows(v[4], v[1])>>

\* detector_width = data_norm.DSL[0]
DetectorWidth(dn, event) == dn[0].DSL

\* the detector set at the source-to-isocenter distance
ScaledDetectorAtSource(dn, event) ==
    [k \in 1..8 |-> <<UnitDetector[k][1] * DetectorWidth(dn, event),
                      UnitDetector[k][2] * dn[event].DSI,
                      UnitDetector[k][3] * DetectorWidth(dn, event)>>]

\* det_r[:, 0] *= detector_width; det_r[:, 2] *= detector_width;
\* det_r[:, 1] *= DID[event]
ScaledDetector(dn, event) ==
    [k \in 1..8 |-> <<UnitDetector[k][1] * DetectorWidth(dn, event),
                      UnitDetector[k][2] * dn[event].DID,
                      UnitDetector[k][3] * DetectorWidth(dn, event)>>]

\* the detector corners carried through the transform of the beam, the
\* detector rotation included
BeamDetRTurned(dn, event, plot_setup) ==
    LET ap == BeamAngles(dn, event, plot_setup)
        rows == RotateRows(PanelTransform(ap), Transpose(R3Of(ap[3])),
                           ScaledDetector(dn, event))
    IN  [k \in 1..8 |-> VDiv(rows[k], Den)]

\* self.det_r: det_r = np.matmul(np.matmul(R2, R1).T, det_r.T).T
BeamDetR(dn, event, plot_setup) ==
    RotatePanelRows(PanelTransform(BeamAngles(dn, event, plot_setup)),
                    ScaledDetector(dn, event))

\* self.ijk
BeamIjk == << <<0, 1, 2>>, <<0, 1, 4>>, <<0, 3, 2>>,
              <<0, 3, 4>>, <<1, 2, 3>>, <<1, 3, 4>> >>

\* self.det_ijk
BeamDetIjk == << <<0, 1, 2>>, <<0, 2, 3>>, <<4, 5, 6>>, <<4, 6, 7>>,
                 <<0, 1, 4>>, <<1, 5, 4>>, <<0, 3, 4>>, <<3, 7, 4>>,
                 <<3, 2, 7>>, <<7, 2, 6>>, <<1, 2, 6>>, <<1, 6, 5>> >>

\* Beam(data_norm, event, plot_setup): the object the constructor leaves
BeamNew(dn, event, plot_setup) ==
    LET r == BeamR(dn, event, plot_setup)
    IN  [r       |-> r,
         ijk     |-> BeamIjk,
         N       |-> BeamN(r),
         det_r   |-> BeamDetR(dn, event, plot_setup),
         det_ijk |-> BeamDetIjk]

-----------------------------------------------------------------------------
(* Beam.check_hit *)

\* the vectors from the points to the apex instead of from the apex to
\* the points
HitVTurned(self, pat) ==
    [i \in 1..Len(pat.r) |-> VSub(self.r[1], VScale(Scale, pat.r[i]))]

\* v = patient.r - self.r[0, :]
HitV(self, pat) ==
    [i \in 1..Len(pat.r) |-> VSub(VScale(Scale, pat.r[i]), self.r[1])]

\* the comparison as a strict one
DotLtZero(v, n) == ~n.nan /\ Dot(v, n.x) < 0

\* one entry of np.dot(v, self.N.T) <= 0; a comparison with NaN is false
DotLeqZero(v, n) == ~n.nan /\ Dot(v, n.x) <= 0

\* the cone cut off at the plane of the base: a point farther from the apex
\* along the axis than the centre of the base is outside
InBeamClipped(self, v) ==
    LET axis == <<self.r[2][1] + self.r[3][1] + self.r[4][1] + self.r[5][1] - 4 * self.r[1][1],
                  self.r[2][2] + self.r[3][2] + self.r[4][2] + self.r[5][2] - 4 * self.r[1][2],
                  self.r[2][3] + self.r[3][3] + self.r[4][3] + self.r[5][3] - 4 * self.r[1][3]>>
        g == GCD3(axis)
        u == IF g = 0 THEN axis ELSE VDiv(axis, g)
    IN  [i \in 1..Len(v) |->
            /\ \A k \in 1..4 : DotLeqZero(v[i], self.N[k])
            /\ 4 * Dot(v[i], u) <= g * Dot(u, u)]

\* hits = (np.dot(v, self.N.T) <= 0).all(axis=1)
InBeam(self, v) ==
    [i \in 1..Len(v) |-> \A k \in 1..4 : DotLeqZero(v[i], self.N[k])]

\* np.where(hits): the indices of the true entries, ascending
Where(h) == SelectSeq([i \in 1..Len(h) |-> i], LAMBDA i : h[i])

\* the entrance test with the sign of the comparison turned
BoolEntranceTurned(temp1, temp2) ==
    [j \in 1..Len(temp1) |-> Dot(temp1[j], temp2[j]) >= 0]

\* bool_entrance = [np.dot(temp1[i], temp2[i]) <= 0 for i in range(len(temp1))]
BoolEntrance(temp1, temp2) ==
    [j \in 1..Len(temp1) |-> Dot(temp1[j], temp2[j]) <= 0]

\* a[mask]: the rows of a at the true entries of the mask, w = np.where(mask)
Masked(a, w) == [j \in 1..Len(w) |-> a[w[j]]]

\* the entrance results written to the first positions instead of the
\* positions of the points they belong to
WriteBackFront(h, w, be) ==
    [i \in 1..Len(h) |-> IF i <= Len(be) THEN be[i] ELSE h[i]]

\* hits[np.where(hits)] = bool_entrance, with w = np.where(hits): entry w[j]
\* becomes bool_entrance[j]
RECURSIVE PutAt(_, _, _, _)
PutAt(h, w, be, j) ==
    IF j > Len(w) THEN h ELSE PutAt([h EXCEPT ![w[j]] = be[j]], w, be, j + 1)

WriteBack(h, w, be) == PutAt(h, w, be, 1)

\* the 3D branch: temp1 = v[hits]; temp2 = patient.n[hits]; bool_entrance;
\* the write back
EntranceHits(v, n, h, w) ==
    WriteBack(h, w, BoolEntrance(Masked(v, w), Masked(n, w)))

\* the hits of the call, after the 3D branch if the phantom is not a plane
HitList(pat, v, h) ==
    IF pat.phantom_model # "plane" THEN EntranceHits(v, pat.n, h, Where(h)) ELSE h

\* what a call leaves: the list it returns as <<list>> (<< >> when it
\* raises), the exception it raises, the beam and the phantom after it
Outcome(self, pat, v) ==
    IF pat.phantom_model # "plane" /\ Len(pat.n) # Len(pat.r)
    THEN [result |-> << >>, raised |-> "IndexError", self |-> self, patient |-> pat]
    ELSE [result |-> <<HitList(pat, v, InBeam(self, v))>>, raised |-> "none",
          self |-> self, patient |-> pat]

\* check_hit working in place on patient.r (v = patient.r; v -= self.r[0])
\* instead of on a fresh array
CheckHitInPlace(self, pat) ==
    [Outcome(self, pat, HitV(self, pat)) EXCEPT
        !.patient = [pat EXCEPT !.r = [i \in 1..Len(pat.r) |->
                                          VSub(pat.r[i], VDiv(self.r[1], Scale))]]]

\* check_hit(self, patient).  A boolean mask on patient.n of another length
\* than patient.n is an IndexError.
CheckHitCall(self, pat) == Outcome(self, pat, HitV(self, pat))

-----------------------------------------------------------------------------
(* Inputs *)

\* one row of data_norm
Event(a1, a2, a3, fl, ft, did, dsi, dsl) ==
    [Ap1 |-> a1, Ap2 |-> a2, Ap3 |-> a3, FS_long |-> fl, FS_lat |-> ft,
     DID |-> did, DSI |-> dsi, DSL |-> dsl]

\* bounds of the events of the hit-test specification: primary and
\* secondary angles 1..HitAngles, longitudinal widths 0..HitWidth
HitAngles == 2
HitWidth == 1

\* bounds of the phantoms of the hit-test specification: grid coordinates
\* -MaxCoord..MaxCoord along the table, and up to MaxCells cells in a short
\* phantom
MaxCoord == 1
MaxCells == 2

\* bounds of the events of the geometry specification: angles
\* 1..GeomAngles, longitudinal widths 0..GeomWidth, lateral width 0 or
\* GeomWidth, source distance 0 or GeomDist
GeomAngles == 5
GeomWidth == 1
GeomDist == 1

\* bounds of the events of the two-procedure specification: primary angles
\* 1..PairAngles, panel side lengths 1..PairPanel
PairAngles == 2
PairPanel == 2

\* the event of scenarios A and B: widths 20 and 10, distances 100 and 60,
\* all angles 0
ScenarioEvent == Event(ZeroAngle, ZeroAngle, ZeroAngle, 20, 10, 100, 60, 40)

HitEvents ==
    {Event(a1, a2, a3, fl, 2, 1, 1, 1) :
        a1 \in 1..HitAngles, a2 \in 1..HitAngles, a3 \in {1, 2},
        fl \in 0..HitWidth}

GeomEvents ==
    {Event(a1, a2, a3, fl, ft, did, dsi, 1) :
        a1 \in 1..GeomAngles, a2 \in 1..GeomAngles, a3 \in 1..GeomAngles,
        fl \in 0..GeomWidth, ft \in {0, GeomWidth},
        did \in {0, 1}, dsi \in {0, GeomDist}}

PairEvents ==
    {Event(a1, ZeroAngle, ZeroAngle, 2, 1, 1, 1, dsl) :
        a1 \in 1..PairAngles, dsl \in 1..PairPanel}

\* the skin-cell normals: the six axis directions
Normals == << <<0, 1, 0>>, <<0, -1, 0>>, <<1, 0, 0>>, <<-1, 0, 0>>,
              <<0, 0, 1>>, <<0, 0, -1>> >>

\* the skin-cell positions: a grid of three heights in raster order, then
\* the point of scenario B, three points below the detector of a beam with
\* DID = 1 and no angulation, and a point above its source
Side == 2 * MaxCoord + 1

GridPoint(i) == <<((i - 1) % Side) - MaxCoord,
                  ((i - 1) \div (Side * Side)) - 1,
                  (((i - 1) \div Side) % Side) - MaxCoord>>

GridPoints ==
    [i \in 1..3 * Side * Side |-> GridPoint(i)]
        \o << <<0, 0, 15>>, <<0, -3, 0>>, <<0, -3, 2>>, <<2, -3, 0>>, <<0, 2, 0>> >>

\* patient.phantom_model: the three kinds of check_hit's docstring, and
\* another one
Kinds == {"plane", "cylinder", "human", "table"}

\* a phantom of the given cells, each a <<position, normal>>
Phantom(kind, cells) ==
    [phantom_model |-> kind,
     r |-> [i \in 1..Len(cells) |-> cells[i][1]],
     n |-> [i \in 1..Len(cells) |-> cells[i][2]]]

\* the grid phantom whose cell i has the normal of index i + shift
GridCells(shift) ==
    [i \in 1..Len(GridPoints) |->
        <<GridPoints[i], Normals[((i + shift) % Len(Normals)) + 1]>>]

\* the cells of the short phantoms: one facing the source of a beam of no
\* angulation, one facing away from it
ProbeCells == {<< <<0, 0, 0>>, <<0, 1, 0>> >>, << <<0, 0, 0>>, <<0, -1, 0>> >>}

ShortCells == UNION {[1..len -> ProbeCells] : len \in 0..MaxCells}

\* volumetric phantoms of two points whose normals are fewer or more than
\* the points
MismatchedPatients ==
    {[phantom_model |-> k, r |-> << <<0, 0, 0>>, <<1, 1, 1>> >>, n |-> ns] :
        k \in {"cylinder", "human"},
        ns \in {<< >>, << <<0, 1, 0>> >>,
                << <<0, 1, 0>>, <<0, 1, 0>>, <<0, 1, 0>> >>}}

HitPatients ==
    {Phantom(k, GridCells(shift)) : k \in Kinds, shift \in {1, 2, 3}}
        \cup {Phantom(k, cells) : k \in {"plane", "cylinder"}, cells \in ShortCells}
        \cup MismatchedPatients

GeomPatients == {Phantom("human", << << <<0, 0, 0>>, <<0, 1, 0>> >> >>)}

-----------------------------------------------------------------------------
(* State *)

\* data_norm[p]: the event table of procedure p, rows 0, 1, ...
\* patient: the phantom
\* beam[p]: << >>, or <<the Beam object last constructed for p>>
\* built[p]: << >>, or <<the event and plot_setup beam[p] was constructed with>>
\* hits[p]: the lists the calls of check_hit on beam[p] returned, oldest first
\* raised[p]: the exception of the last call for p, or "none"

\* bound of the calls of check_hit on one beam
MaxCalls == 2

Procs == DOMAIN data_norm

InitWith(tables, patients) ==
    /\ data_norm \in tables
    /\ patient \in patients
    /\ beam = [p \in DOMAIN data_norm |-> << >>]
    /\ built = [p \in DOMAIN data_norm |-> << >>]
    /\ hits = [p \in DOMAIN data_norm |-> << >>]
    /\ raised = [p \in DOMAIN data_norm |-> "none"]

\* one procedure: the scenario event, then one event of HitEvents
Init ==
    InitWith({[p \in {1} |-> [e \in 0..1 |-> IF e = 0 THEN ScenarioEvent ELSE ev]] :
                 ev \in HitEvents},
             HitPatients)

\* one procedure of one event
InitGeom ==
    InitWith({[p \in {1} |-> [e \in {0} |-> ev]] : ev \in GeomEvents},
             GeomPatients)

\* two procedures of two events each
InitPair ==
    InitWith([{1, 2} -> [0..1 -> PairEvents]], GeomPatients)

\* beam = Beam(data_norm, event, plot_setup); the constructor runs once on
\* an object
BeamInit(p) ==
    \E event \in DOMAIN data_norm[p], plot_setup \in BOOLEAN :
        /\ beam[p] = << >>
        /\ beam' = [beam EXCEPT ![p] = <<BeamNew(data_norm[p], event, plot_setup)>>]
        /\ built' = [built EXCEPT ![p] =
                        <<[event |-> event, plot_setup |-> plot_setup]>>]
        /\ hits' = [hits EXCEPT ![p] = << >>]
        /\ raised' = [raised EXCEPT ![p] = "none"]
        /\ UNCHANGED <<data_norm, patient>>

\* hits = beam.check_hit(patient)
CheckHit(p) ==
    /\ beam[p] # << >>
    /\ Len(hits[p]) < MaxCalls
    /\ LET call == CheckHitCall(beam[p][1], patient)
       IN  /\ hits' = [hits EXCEPT ![p] = hits[p] \o call.result]
           /\ raised' = [raised EXCEPT ![p] = call.raised]
           /\ beam' = [beam EXCEPT ![p] = <<call.self>>]
           /\ patient' = call.patient
    /\ UNCHANGED <<data_norm, built>>

Next ==
    \/ \E p \in Procs : BeamInit(p)
    \/ \E p \in Procs : CheckHit(p)

Spec == Init /\ [][Next]_vars

SpecGeom == InitGeom /\ [][Next]_vars

SpecPair == InitPair /\ [][Next]_vars

-----------------------------------------------------------------------------
(* Vocabulary of the properties *)

\* the Beam object of procedure p, and the event row it was built from
TheBeam(p) == beam[p][1]

TheEvent(p) == data_norm[p][built[p][1].event]

\* the angles the constructor used for beam[p]
NeutralPose(p) ==
    \/ built[p][1].plot_setup
    \/ /\ TheEvent(p).Ap1 = ZeroAngle
       /\ TheEvent(p).Ap2 = ZeroAngle
       /\ TheEvent(p).Ap3 = ZeroAngle

\* both collimation widths of the event of beam[p] are positive
PositiveWidths(p) == TheEvent(p).FS_long > 0 /\ TheEvent(p).FS_lat > 0

\* check_hit has returned for beam[p]; the list it returned last
Returned(p) == hits[p] # << >>

LastHits(p) == hits[p][Len(hits[p])]

\* the vector from the apex (row 0 of b.r) to the phantom point pt, over Scale
FromApex(b, pt) ==
    <<Scale * pt[1] - b.r[1][1], Scale * pt[2] - b.r[1][2], Scale * pt[3] - b.r[1][3]>>

\* dot(pt - apex, N_k), up to the positive factor of row k of b.N
FaceDot(b, pt, k) ==
    FromApex(b, pt)[1] * b.N[k].x[1] + FromApex(b, pt)[2] * b.N[k].x[2]
        + FromApex(b, pt)[3] * b.N[k].x[3]

\* dot(pt - apex, n) for a phantom normal n
NormalDot(b, pt, n) ==
    FromApex(b, pt)[1] * n[1] + FromApex(b, pt)[2] * n[2] + FromApex(b, pt)[3] * n[3]

\* pt passes the four half-space tests of beam b
InCone(b, pt) == \A k \in 1..4 : ~b.N[k].nan /\ FaceDot(b, pt, k) <= 0

Cells == 1..Len(patient.r)

-----------------------------------------------------------------------------
(* C1 - C3: the hit test *)

\* C1: for a plane phantom, the list check_hit returns marks point i as
\* hit exactly when dot(p_i - apex, N_k) <= 0 for all four face normals k;
\* a point with a dot product of exactly 0 and none positive is hit, and the
\* phantom's normals play no part.
C1_ConeMembership ==
    \A p \in Procs :
        (Returned(p) /\ patient.phantom_model = "plane") =>
            \A i \in Cells :
                LastHits(p)[i] <=>
                    (\A k \in 1..4 :
                        ~TheBeam(p).N[k].nan /\ FaceDot(TheBeam(p), patient.r[i], k) <= 0)

\* a rotated beam of positive widths and a plane phantom with a hit point
\* lying on a bounding plane of the beam, and a point that is not hit
C1_Witness ==
    \E p \in Procs :
        /\ beam[p] # << >> /\ Returned(p) /\ PositiveWidths(p)
        /\ patient.phantom_model = "plane"
        /\ ~NeutralPose(p)
        /\ \E i \in Cells, k \in 1..4 :
              /\ LastHits(p)[i]
              /\ TheBeam(p).N[k].x # Zero3
              /\ FaceDot(TheBeam(p), patient.r[i], k) = 0
        /\ \E i \in Cells : ~LastHits(p)[i]

\* C2: for a cylinder or human phantom, the list check_hit returns marks
\* point i as hit exactly when the point passes the four half-space tests
\* and dot(p_i - apex, n_i) <= 0 for its own normal n_i.
C2_EntranceOnly ==
    \A p \in Procs :
        (Returned(p) /\ patient.phantom_model \in {"cylinder", "human"}) =>
            \A i \in Cells :
                LastHits(p)[i] <=>
                    /\ InCone(TheBeam(p), patient.r[i])
                    /\ NormalDot(TheBeam(p), patient.r[i], patient.n[i]) <= 0

\* a volumetric phantom with an entrance cell that is hit, an exit-facing
\* cell inside the cone that is not, and a cell outside the cone whose
\* normal faces the source that is not
C2_Witness ==
    \E p \in Procs :
        /\ beam[p] # << >> /\ Returned(p) /\ PositiveWidths(p)
        /\ patient.phantom_model \in {"cylinder", "human"}
        /\ \E i \in Cells : LastHits(p)[i]
        /\ \E i \in Cells :
              /\ InCone(TheBeam(p), patient.r[i])
              /\ NormalDot(TheBeam(p), patient.r[i], patient.n[i]) > 0
              /\ ~LastHits(p)[i]
        /\ \E i \in Cells :
              /\ ~InCone(TheBeam(p), patient.r[i])
              /\ NormalDot(TheBeam(p), patient.r[i], patient.n[i]) < 0
              /\ ~LastHits(p)[i]

\* the list check_hit returns for the phantom of the one cell i of patient
AloneHit(p, i) ==
    CheckHitCall(TheBeam(p),
                 [phantom_model |-> patient.phantom_model,
                  r |-> <<patient.r[i]>>, n |-> <<patient.n[i]>>]).result[1][1]

\* C3: the list check_hit returns has one boolean per surface point, and
\* entry i is what the call returns for point i (and normal i) alone: no
\* other point of the phantom decides it, and the entrance results of the
\* in-cone points come back at the positions of those points.
C3_OnePerPoint ==
    \A p \in Procs :
        Returned(p) =>
            /\ Len(LastHits(p)) = Len(patient.r)
            /\ \A i \in Cells : LastHits(p)[i] = AloneHit(p, i)

\* a volumetric phantom where a hit cell comes after a cell outside the
\* cone and after an exit-facing cell inside it
C3_Witness ==
    \E p \in Procs :
        /\ Returned(p) /\ PositiveWidths(p)
        /\ patient.phantom_model # "plane"
        /\ \E i, j, k \in Cells :
              /\ i < k /\ j < k
              /\ ~InCone(TheBeam(p), patient.r[i])
              /\ InCone(TheBeam(p), patient.r[j]) /\ ~LastHits(p)[j]
              /\ LastHits(p)[k]

-----------------------------------------------------------------------------
(* C4 - C6: the beam of one event *)

\* the angles the constructor used for beam[p]
UsedAp1(p) == IF built[p][1].plot_setup THEN ZeroAngle ELSE TheEvent(p).Ap1

UsedAp2(p) == IF built[p][1].plot_setup THEN ZeroAngle ELSE TheEvent(p).Ap2

\* C4 as stated: for every event and every angle triple, row 0 of Beam.r is
\* (0, DSI, 0).
C4_ApexFixed ==
    \A p \in Procs :
        beam[p] # << >> => TheBeam(p).r[1] = <<0, Scale * TheEvent(p).DSI, 0>>

\* C4 as amended: row 0 of Beam.r is the source (0, DSI, 0) carried through
\* the beam transform, (-sin(ap1) cos(ap2) DSI, cos(ap1) cos(ap2) DSI,
\* sin(ap2) DSI); it is (0, DSI, 0) whenever the primary and the secondary
\* angle used are 0, whatever the detector-rotation angle.
C4_ApexRotated ==
    \A p \in Procs :
        beam[p] # << >> =>
            /\ TheBeam(p).r[1] =
                  <<-2 * Den * Sin(UsedAp1(p)) * Cos(UsedAp2(p)) * TheEvent(p).DSI,
                    2 * Den * Cos(UsedAp1(p)) * Cos(UsedAp2(p)) * TheEvent(p).DSI,
                    2 * Den * Den * Sin(UsedAp2(p)) * TheEvent(p).DSI>>
            /\ (UsedAp1(p) = ZeroAngle /\ UsedAp2(p) = ZeroAngle) =>
                  TheBeam(p).r[1] = <<0, Scale * TheEvent(p).DSI, 0>>

\* a beam built from an event whose three angles are not 0 and whose source
\* distance is positive
C4_Witness ==
    \E p \in Procs :
        /\ beam[p] # << >> /\ ~built[p][1].plot_setup
        /\ TheEvent(p).Ap1 # ZeroAngle /\ TheEvent(p).Ap2 # ZeroAngle
        /\ TheEvent(p).Ap3 # ZeroAngle /\ TheEvent(p).DSI > 0
        /\ TheBeam(p).r[1] # <<0, Scale * TheEvent(p).DSI, 0>>

\* C5: a beam built with plot_setup set, whatever the angles of its event,
\* or built from an event whose three angles are 0, has its apex at
\* (0, DSI, 0) and its base corners at (+-0.5 FS_long, -DID, +-0.5 FS_lat),
\* in the order (+, +), (+, -), (-, -), (-, +).
C5_NeutralPose ==
    \A p \in Procs :
        (beam[p] # << >> /\ NeutralPose(p)) =>
            LET e == TheEvent(p)
                half == Den * Den * Den
            IN  TheBeam(p).r =
                    << <<0, Scale * e.DSI, 0>>,
                       <<half * e.FS_long, -Scale * e.DID, half * e.FS_lat>>,
                       <<half * e.FS_long, -Scale * e.DID, -half * e.FS_lat>>,
                       <<-half * e.FS_long, -Scale * e.DID, -half * e.FS_lat>>,
                       <<-half * e.FS_long, -Scale * e.DID, half * e.FS_lat>> >>

\* a beam built with plot_setup set from an event of three angles that are
\* not 0, of positive widths and distances
C5_Witness ==
    \E p \in Procs :
        /\ beam[p] # << >> /\ built[p][1].plot_setup /\ PositiveWidths(p)
        /\ TheEvent(p).Ap1 # ZeroAngle /\ TheEvent(p).Ap2 # ZeroAngle
        /\ TheEvent(p).Ap3 # ZeroAngle
        /\ TheEvent(p).DSI > 0 /\ TheEvent(p).DID > 0

\* C6: at neutral pose, with positive widths and distances, a point
\* (x, y, z) of a plane phantom with y < DSI is hit exactly when
\* 2 |x| (DSI + DID) <= FS_long (DSI - y) and
\* 2 |z| (DSI + DID) <= FS_lat (DSI - y); for the beam of widths 20 and 10
\* and distances 100 and 60, the point (0, 0, 0) is hit and the point
\* (0, 0, 15) is not.
C6_NeutralPlane ==
    \A p \in Procs :
        (/\ beam[p] # << >> /\ NeutralPose(p) /\ PositiveWidths(p)
         /\ TheEvent(p).DSI > 0 /\ TheEvent(p).DID > 0
         /\ patient.phantom_model = "plane" /\ Returned(p)) =>
            LET e == TheEvent(p)
            IN  \A i \in Cells :
                    LET x == patient.r[i][1]
                        y == patient.r[i][2]
                        z == patient.r[i][3]
                    IN  /\ y < e.DSI =>
                              (LastHits(p)[i] <=>
                                  /\ 2 * Abs(x) * (e.DSI + e.DID) <= e.FS_long * (e.DSI - y)
                                  /\ 2 * Abs(z) * (e.DSI + e.DID) <= e.FS_lat * (e.DSI - y))
                        /\ (e = ScenarioEvent /\ patient.r[i] = <<0, 0, 0>>) =>
                              LastHits(p)[i]
                        /\ (e = ScenarioEvent /\ patient.r[i] = <<0, 0, 15>>) =>
                              ~LastHits(p)[i]

\* the scenario beam and a plane phantom holding both scenario points, the
\* first hit and the second not
C6_Witness ==
    \E p \in Procs :
        /\ beam[p] # << >> /\ Returned(p)
        /\ TheEvent(p) = ScenarioEvent
        /\ patient.phantom_model = "plane"
        /\ \E i, j \in Cells :
              /\ patient.r[i] = <<0, 0, 0>> /\ LastHits(p)[i]
              /\ patient.r[j] = <<0, 0, 15>> /\ ~LastHits(p)[j]

-----------------------------------------------------------------------------
(* C7 - C10: independence, purity, rejected inputs *)

\* C7 as stated: two procedures whose rows for event e are equal yield, for
\* event e, beams of the same vertices, normals and detector vertices (and
\* the same hit lists), whatever their other rows hold.
C7_EventAlone ==
    (Procs = {1, 2} /\ beam[1] # << >> /\ beam[2] # << >>
     /\ built[1] = built[2] /\ TheEvent(1) = TheEvent(2)) =>
        /\ TheBeam(1).r = TheBeam(2).r
        /\ TheBeam(1).N = TheBeam(2).N
        /\ TheBeam(1).det_r = TheBeam(2).det_r
        /\ (Returned(1) /\ Returned(2)) => LastHits(1) = LastHits(2)

\* C8: a call of check_hit leaves the beam and the phantom as they were, and
\* returns the list every earlier call on the same beam returned.
C8_PureCall ==
    [][\A p \in Procs :
          Len(hits'[p]) > Len(hits[p]) =>
              /\ patient' = patient
              /\ beam'[p] = beam[p]
              /\ \A c \in 1..Len(hits[p]) : hits'[p][Len(hits'[p])] = hits[p][c]]_vars

\* check_hit has returned twice for a beam of positive widths and a
\* volumetric phantom with a cell that is hit and a cell that is not
C8_Witness ==
    \E p \in Procs :
        /\ Len(hits[p]) = 2 /\ PositiveWidths(p)
        /\ patient.phantom_model # "plane"
        /\ \E i, j \in Cells : LastHits(p)[i] /\ ~LastHits(p)[j]

\* C9 as stated: for an event whose longitudinal or lateral collimation
\* width is 0 (its distances positive, so that the width alone is
\* degenerate) the constructor raises NumericDegeneracy and leaves no beam.
C9_DegenerateRejected ==
    \A p \in Procs :
        (/\ built[p] # << >>
         /\ TheEvent(p).FS_long = 0 \/ TheEvent(p).FS_lat = 0
         /\ TheEvent(p).DSI > 0 /\ TheEvent(p).DID > 0) =>
            raised[p] = "NumericDegeneracy" /\ beam[p] = << >>

\* C10 as stated: for a phantom whose kind is none of plane, cylinder and
\* human, check_hit raises UnsupportedPhantomKind and returns no list.
C10_KindRejected ==
    \A p \in Procs :
        patient.phantom_model \notin {"plane", "cylinder", "human"} =>
            /\ hits[p] = << >>
            /\ raised[p] \in {"none", "UnsupportedPhantomKind"}

-----------------------------------------------------------------------------
(* C11 - C13: the rotations and the face normals *)

\* the angles the constructor used for beam[p]
UsedAngles(p) ==
    BeamAngles(data_norm[p], built[p][1].event, built[p][1].plot_setup)

\* M M^T is the identity, for a matrix of numerators over d
IsOrthonormal(M, d) ==
    MatMul(M, Transpose(M)) =
        [i \in 1..3 |-> [j \in 1..3 |-> IF i = j THEN d * d ELSE 0]]

\* the squared distance of two points
Dist2(a, b) == Dot(VSub(a, b), VSub(a, b))

\* the five beam points and the eight detector points of beam[p] before
\* their transforms, in halves and in tenths
LocalBeam(p) ==
    <<SourceOf(data_norm[p], built[p][1].event)>>
        \o ScaledBeam(data_norm[p], built[p][1].event)

LocalDetector(p) == ScaledDetector(data_norm[p], built[p][1].event)

\* C11: for the angles of every beam built, R1, R2 and R3 satisfy
\* R R^T = identity, and so do the beam transform (R2 R1)^T R3^T and the
\* detector-panel transform (R2 R1)^T; every distance between two rows of
\* Beam.r, and between two rows of Beam.det_r, is the distance between the
\* same two points before the transform.
C11_Orthonormal ==
    \A p \in Procs :
        beam[p] # << >> =>
            LET ap == UsedAngles(p)
                T == PanelTransform(ap)
                B == MatMul(T, Transpose(R3Of(ap[3])))
                r == TheBeam(p).r
                det_r == TheBeam(p).det_r
                lr == LocalBeam(p)
                ld == LocalDetector(p)
            IN  /\ IsOrthonormal(R1Of(ap[1]), Den)
                /\ IsOrthonormal(R2Of(ap[2]), Den)
                /\ IsOrthonormal(R3Of(ap[3]), Den)
                /\ IsOrthonormal(T, Den * Den)
                /\ IsOrthonormal(B, Den * Den * Den)
                /\ \A i \in 1..5 : \A j \in i + 1..5 :
                      4 * Dist2(r[i], r[j]) = Scale * Scale * Dist2(lr[i], lr[j])
                /\ \A i \in 1..8 : \A j \in i + 1..8 :
                      100 * Dist2(det_r[i], det_r[j]) =
                          Scale * Scale * Dist2(ld[i], ld[j])

\* a beam of positive widths and distances built from an event of three
\* different angles that are not 0, one of them neither 90 nor 180 degrees,
\* whose vertices have moved
C11_Witness ==
    \E p \in Procs :
        /\ beam[p] # << >> /\ ~built[p][1].plot_setup /\ PositiveWidths(p)
        /\ TheEvent(p).DSI > 0 /\ TheEvent(p).DID > 0
        /\ TheEvent(p).Ap1 = 2 /\ TheEvent(p).Ap2 = 3 /\ TheEvent(p).Ap3 = 4
        /\ \A k \in 1..5 : VScale(2, TheBeam(p).r[k]) # VScale(Scale, LocalBeam(p)[k])

\* the event table of procedure p with the detector-rotation angle of the
\* event of beam[p] replaced by a3
WithAp3(p, a3) == [data_norm[p] EXCEPT ![built[p][1].event].Ap3 = a3]

PositiveDistances(p) == TheEvent(p).DSI > 0 /\ TheEvent(p).DID > 0

\* the edge from the apex to base corner k of beam b, k = 1..4
Edge(b, k) == VSub(b.r[k + 1], b.r[1])

\* the corner after corner k in the winding order
NextCorner(k) == (k % 4) + 1

\* four times the vector from the apex to the centre of the base
AxisOf(b) ==
    <<Edge(b, 1)[1] + Edge(b, 2)[1] + Edge(b, 3)[1] + Edge(b, 4)[1],
      Edge(b, 1)[2] + Edge(b, 2)[2] + Edge(b, 3)[2] + Edge(b, 4)[2],
      Edge(b, 1)[3] + Edge(b, 2)[3] + Edge(b, 3)[3] + Edge(b, 4)[3]>>

\* a vector divided by the gcd of its coordinates
Reduced(w) == IF w = Zero3 THEN w ELSE VDiv(w, GCD3(w))

\* C13: for a beam of positive widths and distances, whatever its angles,
\* row k of Beam.N is a positive multiple of the cross product of the edges
\* to corner k and to the corner after it; the edges to the two other
\* corners have a negative dot product with it; the points a quarter, a
\* half and three quarters of the way from the apex to the centre of the base
\* pass the cone test of check_hit, none of them on a bounding plane.
C13_OutwardNormals ==
    \A p \in Procs :
        (beam[p] # << >> /\ PositiveWidths(p) /\ PositiveDistances(p)) =>
            LET b == TheBeam(p)
            IN  /\ \A k \in 1..4 :
                      LET c == Reduced(Cross(Edge(b, k), Edge(b, NextCorner(k))))
                      IN  /\ ~b.N[k].nan
                          /\ Cross(Reduced(b.N[k].x), c) = Zero3
                          /\ Dot(b.N[k].x, c) > 0
                          /\ \A m \in 1..4 \ {k, NextCorner(k)} :
                                Dot(Edge(b, m), b.N[k].x) < 0
                          /\ Dot(AxisOf(b), b.N[k].x) < 0
                /\ InBeam(b, <<AxisOf(b), VScale(2, AxisOf(b)), VScale(3, AxisOf(b))>>)
                      = <<TRUE, TRUE, TRUE>>

\* a beam of positive widths and distances built from an event of three
\* angles that are not 0, one of them neither 90 nor 180 degrees
C13_Witness ==
    \E p \in Procs :
        /\ beam[p] # << >> /\ ~built[p][1].plot_setup
        /\ PositiveWidths(p) /\ PositiveDistances(p)
        /\ TheEvent(p).Ap1 = 3 /\ TheEvent(p).Ap2 = 2 /\ TheEvent(p).Ap3 = 5
        /\ \A k \in 1..4 : TheBeam(p).N[k].x # Zero3

-----------------------------------------------------------------------------
(* C14 - C17: the extent of the cone, rejected phantoms, the detector *)

\* the vector from the apex to the centre of the base of beam b, up to a
\* positive factor, and the factor by which AxisOf(b) is longer
AxisDir(b) == Reduced(AxisOf(b))

AxisLen(b) == GCD3(AxisOf(b))

\* pt lies beyond the plane of the base of beam b, seen from the apex
Beyond(b, pt) ==
    4 * Dot(FromApex(b, pt), AxisDir(b)) > AxisLen(b) * Dot(AxisDir(b), AxisDir(b))

\* q = apex + t (pt - apex) for some t > 0, pt not being the apex
OnRay(b, pt, q) ==
    /\ Cross(FromApex(b, pt), FromApex(b, q)) = Zero3
    /\ Dot(FromApex(b, pt), FromApex(b, q)) > 0

\* C14: a point beyond the plane of the base that passes the four
\* half-space tests is hit (for a volumetric phantom, exactly when its normal
\* passes the entrance test); for a plane phantom, every point of the
\* phantom on the ray from the apex through a hit point is hit.
C14_NoFarClip ==
    \A p \in Procs :
        Returned(p) =>
            LET b == TheBeam(p)
                v == [i \in Cells |-> FromApex(b, patient.r[i])]
                u == AxisDir(b)
                reach == AxisLen(b) * Dot(u, u)
                h == LastHits(p)
            IN  \A i \in Cells :
                    /\ (/\ 4 * Dot(v[i], u) > reach
                         /\ \A k \in 1..4 : ~b.N[k].nan /\ Dot(v[i], b.N[k].x) <= 0) =>
                          IF patient.phantom_model = "plane"
                          THEN h[i]
                          ELSE h[i] <=> Dot(v[i], patient.n[i]) <= 0
                    /\ (patient.phantom_model = "plane" /\ h[i]) =>
                          \A j \in Cells :
                              (Cross(v[i], v[j]) = Zero3 /\ Dot(v[i], v[j]) > 0) => h[j]

\* a plane phantom and a beam of positive widths: a hit point short of the
\* base and a hit point beyond it on the same ray, strictly inside the cone;
\* the same on a bounding plane; and a point beyond the base that is not hit
C14_Witness ==
    \E p \in Procs :
        /\ Returned(p) /\ PositiveWidths(p) /\ patient.phantom_model = "plane"
        /\ \E i, j \in Cells :
              /\ ~Beyond(TheBeam(p), patient.r[i]) /\ Beyond(TheBeam(p), patient.r[j])
              /\ OnRay(TheBeam(p), patient.r[i], patient.r[j])
              /\ LastHits(p)[i] /\ LastHits(p)[j]
              /\ \A k \in 1..4 : FaceDot(TheBeam(p), patient.r[j], k) < 0
        /\ \E i, j \in Cells :
              /\ ~Beyond(TheBeam(p), patient.r[i]) /\ Beyond(TheBeam(p), patient.r[j])
              /\ OnRay(TheBeam(p), patient.r[i], patient.r[j])
              /\ LastHits(p)[i] /\ LastHits(p)[j]
              /\ \E k \in 1..4 : FaceDot(TheBeam(p), patient.r[j], k) = 0
        /\ \E j \in Cells : Beyond(TheBeam(p), patient.r[j]) /\ ~LastHits(p)[j]

\* C15 as stated: for a volumetric phantom whose normals are not as many as
\* its points, check_hit raises InvalidInput (at entry, before any dot
\* product) and returns no list.
C15_MismatchRejected ==
    \A p \in Procs :
        (/\ patient.phantom_model \in {"cylinder", "human"}
         /\ Len(patient.n) # Len(patient.r)) =>
            /\ hits[p] = << >>
            /\ raised[p] \in {"none", "InvalidInput"}

\* C16: for a beam of positive widths and distances, whatever its angles
\* and whatever the phantom, no point other than the apex whose vector from
\* the apex has a dot product <= 0 with the vector from the apex to the
\* centre of the base is hit.
C16_NoMirrorCone ==
    \A p \in Procs :
        (Returned(p) /\ PositiveWidths(p) /\ PositiveDistances(p)) =>
            LET b == TheBeam(p)
                u == AxisDir(b)
                h == LastHits(p)
            IN  \A i \in Cells :
                    LET v == FromApex(b, patient.r[i])
                    IN  (v # Zero3 /\ Dot(v, u) <= 0) => ~h[i]

\* a plane phantom and a beam of positive widths and distances: the apex
\* is hit and a point in front of it is; a point behind the apex, in the
\* mirror image of the cone, is not hit, nor is a point beside the apex
C16_Witness ==
    \E p \in Procs :
        /\ Returned(p) /\ PositiveWidths(p) /\ PositiveDistances(p)
        /\ patient.phantom_model = "plane"
        /\ \E i, j \in Cells :
              /\ FromApex(TheBeam(p), patient.r[i]) = Zero3 /\ LastHits(p)[i]
              /\ Dot(FromApex(TheBeam(p), patient.r[j]), AxisDir(TheBeam(p))) > 0
              /\ LastHits(p)[j]
        /\ \E i, j \in Cells :
              /\ Dot(FromApex(TheBeam(p), patient.r[i]), AxisDir(TheBeam(p))) < 0
              /\ \A k \in 1..4 : FaceDot(TheBeam(p), patient.r[i], k) > 0
              /\ ~LastHits(p)[i]
              /\ FromApex(TheBeam(p), patient.r[j]) # Zero3
              /\ Dot(FromApex(TheBeam(p), patient.r[j]), AxisDir(TheBeam(p))) = 0
              /\ ~LastHits(p)[j]

\* a normal of the front face of the detector of beam b (rows 0..3 of
\* det_r), up to a positive factor
FrontNormal(b) ==
    Reduced(Cross(VSub(b.det_r[2], b.det_r[1]), VSub(b.det_r[4], b.det_r[1])))

\* the sum of the rows lo..lo+3 of the point array a
SumOfFour(a, lo) ==
    <<a[lo][1] + a[lo + 1][1] + a[lo + 2][1] + a[lo + 3][1],
      a[lo][2] + a[lo + 1][2] + a[lo + 2][2] + a[lo + 3][2],
      a[lo][3] + a[lo + 1][3] + a[lo + 2][3] + a[lo + 3][3]>>

\* C17: for every beam built, whatever its event and angles, rows 1..4 of
\* Beam.r lie in the plane through rows 0..3 of Beam.det_r, and the centre of
\* rows 1..4 of Beam.r is the centre of rows 0..3 of Beam.det_r.
C17_Aligned ==
    \A p \in Procs :
        beam[p] # << >> =>
            /\ FrontNormal(TheBeam(p)) # Zero3
            /\ \A k \in 2..5 :
                  Dot(VSub(TheBeam(p).r[k], TheBeam(p).det_r[1]),
                      FrontNormal(TheBeam(p))) = 0
            /\ SumOfFour(TheBeam(p).r, 2) = SumOfFour(TheBeam(p).det_r, 1)

\* a beam of positive widths and distances built from an event of three
\* angles that are not 0, its base turned against the detector: no edge
\* of the base is parallel to the first edge of the detector's front face
C17_Witness ==
    \E p \in Procs :
        /\ beam[p] # << >> /\ ~built[p][1].plot_setup
        /\ PositiveWidths(p) /\ PositiveDistances(p)
        /\ TheEvent(p).Ap1 # ZeroAngle /\ TheEvent(p).Ap2 # ZeroAngle
        /\ TheEvent(p).Ap3 = 2
        /\ \A k \in 1..4 :
              Cross(VSub(Edge(TheBeam(p), NextCorner(k)), Edge(TheBeam(p), k)),
                    VSub(TheBeam(p).det_r[2], TheBeam(p).det_r[1])) # Zero3

====
